---- MODULE Spec2Model ----
(***************************************************************************)
(* Pricing engine of the afterschool registration form (utils/pricing.ts). *)
(*                                                                         *)
(* Every JavaScript number is carried as an integer number of cents.  The  *)
(* two places where the code produces a value that need not be a whole     *)
(* number of cents (x * 0.4 and 350 / 4) are carried as a fraction         *)
(* num / den of cents and rounded by toFixed2, as Number.toFixed(2) does.  *)
(* All unrounded values of the code have at most three decimals, so no     *)
(* binary floating point error reaches a rounding tie.                     *)
(***************************************************************************)
EXTENDS Integers, Sequences, FiniteSets, TLC

\* the pricing engine and its caller
VARIABLES input, result, prev, pc

\* the registration form (App)
VARIABLES formData, isSubmitting, submitted, inflight, logged, alertShown,
          lastSubmit

\* the send-email endpoint (Express route and Vercel function)
VARIABLES env, handler, req, hpc, outbox, response, smtpTransporter

pricingVars == <<input, result, prev, pc>>

emailVars == <<env, handler, req, hpc, outbox, response, smtpTransporter>>

\* the Stripe webhook of the Express server
VARIABLES stripeEnv, whReq, whResponse, whMail, whLog, whHandled

webhookVars == <<stripeEnv, whReq, whResponse, whMail, whLog, whHandled>>

formVars ==
  <<formData, isSubmitting, submitted, inflight, logged, alertShown, lastSubmit>>

vars == <<pricingVars, formVars, emailVars, webhookVars>>

\* ------------------------------------------------------------------ types
TimeBlock == {"4-6", "3-6", "4-7", "3-7"}

School == {"Searingtown", "Other"}

BillingFrequency == {"weekly", "monthly", "3months", "6months", "year"}

DaysPerWeek == {1, 2, 3, 4, 5}

\* an optional boolean field: omitted, false or true
OptionalBoolean == {"undefined", "false", "true"}

PricingInput ==
  [daysPerWeek : DaysPerWeek, timeBlock : TimeBlock, school : School,
   frequency : BillingFrequency, extensionsEnabled : OptionalBoolean,
   abacusEnabled : OptionalBoolean, isCarrington : OptionalBoolean]

\* JavaScript truthiness of an optional boolean (undefined is falsy)
Truthy(b) == b = "true"

\* one dollar amount of the source, in cents
Dollars(n) == n * 100

\* +(num / den).toFixed(2) on a value of num / den cents, den > 0:
\* the nearest whole cent, a tie going away from zero
toFixed2(num, den) ==
  IF num >= 0 THEN (2 * num + den) \div (2 * den)
  ELSE 0 - ((2 * (0 - num) + den) \div (2 * den))

\* ----------------------------------------------------------------- tables
\* mutant: the 4-day entry mistyped
baseWeeklyMap_typo4 ==
  [d \in DaysPerWeek |->
     CASE d = 1 -> Dollars(75)
       [] d = 2 -> Dollars(150)
       [] d = 3 -> Dollars(225)
       [] d = 4 -> Dollars(275)
       [] d = 5 -> Dollars(375)]

baseWeeklyMap ==
  [d \in DaysPerWeek |->
     CASE d = 1 -> Dollars(75)
       [] d = 2 -> Dollars(150)
       [] d = 3 -> Dollars(225)
       [] d = 4 -> Dollars(300)
       [] d = 5 -> Dollars(375)]

\* mutant: the '4-7' block forgotten in the $30 test
addOnPerDay_no47(timeBlock) ==
  IF timeBlock = "3-7" THEN Dollars(50)
  ELSE IF timeBlock = "3-6" THEN Dollars(30)
  ELSE Dollars(0)

addOnPerDay(timeBlock) ==
  IF timeBlock = "3-7" THEN Dollars(50)
  ELSE IF timeBlock = "3-6" \/ timeBlock = "4-7" THEN Dollars(30)
  ELSE Dollars(0)

\* mutant: the 'year' case missing, so that the switch falls off its end; the
\* undefined it then returns is carried as the number -1
periodWeeksFor_noYear(frequency) ==
  CASE frequency = "weekly" -> 1
    [] frequency = "monthly" -> 4
    [] frequency = "3months" -> 12
    [] frequency = "6months" -> 24
    [] OTHER -> 0 - 1

\* mutant: the school year counted as a calendar year of 52 weeks
periodWeeksFor_year52(frequency) ==
  CASE frequency = "weekly" -> 1
    [] frequency = "monthly" -> 4
    [] frequency = "3months" -> 12
    [] frequency = "6months" -> 24
    [] frequency = "year" -> 52

periodWeeksFor(frequency) ==
  CASE frequency = "weekly" -> 1
    [] frequency = "monthly" -> 4
    [] frequency = "3months" -> 12
    [] frequency = "6months" -> 24
    [] frequency = "year" -> 40

\* mutant: the 3/6/year discounts start at 4 days instead of 3
prepayWeeklyDiscount_from4(frequency, daysPerWeek) ==
  IF frequency = "monthly" THEN Dollars(10)
  ELSE LET eligible3to5 == daysPerWeek >= 4 IN
    IF ~eligible3to5 THEN Dollars(0)
    ELSE CASE frequency = "3months" -> Dollars(25)
           [] frequency = "6months" -> Dollars(40)
           [] frequency = "year" -> Dollars(40)
           [] OTHER -> Dollars(0)

\* mutant: the full-year discount of the earlier price table ($50)
prepayWeeklyDiscount_year50(frequency, daysPerWeek) ==
  IF frequency = "monthly" THEN Dollars(10)
  ELSE LET eligible3to5 == daysPerWeek >= 3 IN
    IF ~eligible3to5 THEN Dollars(0)
    ELSE CASE frequency = "3months" -> Dollars(25)
           [] frequency = "6months" -> Dollars(40)
           [] frequency = "year" -> Dollars(50)
           [] OTHER -> Dollars(0)

prepayWeeklyDiscount(frequency, daysPerWeek) ==
  IF frequency = "monthly" THEN Dollars(10)
  ELSE LET eligible3to5 == daysPerWeek >= 3 IN
    IF ~eligible3to5 THEN Dollars(0)
    ELSE CASE frequency = "3months" -> Dollars(25)
           [] frequency = "6months" -> Dollars(40)
           [] frequency = "year" -> Dollars(40)
           [] OTHER -> Dollars(0)

\* --------------------------------------------------------- calculatePrice
\* the const declarations of calculatePrice, one operator each
baseWeekly(in) == baseWeeklyMap[in.daysPerWeek]

\* mutant: the add-on applied whether or not extensions are enabled
addOnWeekly_ungated(in) == addOnPerDay(in.timeBlock) * in.daysPerWeek

addOnWeekly(in) ==
  (IF Truthy(in.extensionsEnabled) THEN addOnPerDay(in.timeBlock) ELSE 0)
    * in.daysPerWeek

\* mutant: the monthly abacus price charged per week
abacusWeekly_monthly(in) ==
  IF Truthy(in.abacusEnabled) THEN toFixed2(Dollars(350), 1) ELSE 0

\* Abacus: $350/month => $87.50/week equivalent
abacusWeekly(in) ==
  IF Truthy(in.abacusEnabled) THEN toFixed2(Dollars(350), 4) ELSE 0

subtotal(in) == baseWeekly(in) + addOnWeekly(in)

\* mutant: the 2-day minimum dropped
eligibleForSchoolDiscount_anyDays(in) == in.school = "Searingtown"

eligibleForSchoolDiscount(in) ==
  in.school = "Searingtown" /\ in.daysPerWeek >= 2

\* mutant: the whole subtotal taken off instead of 40% of it
schoolDiscountWeekly_whole(in) ==
  IF eligibleForSchoolDiscount(in) THEN toFixed2(subtotal(in) * 10, 10) ELSE 0

\* mutant: the 40% taken on the abacus amount too
schoolDiscountWeekly_onAbacus(in) ==
  IF eligibleForSchoolDiscount(in)
  THEN toFixed2((subtotal(in) + abacusWeekly(in)) * 4, 10) ELSE 0

\* +(subtotal * 0.4).toFixed(2)
schoolDiscountWeekly(in) ==
  IF eligibleForSchoolDiscount(in) THEN toFixed2(subtotal(in) * 4, 10) ELSE 0

prepayDiscountWeekly(in) == prepayWeeklyDiscount(in.frequency, in.daysPerWeek)

\* mutant: the discounts and the subtotal swapped in the subtraction, and the
\* clamp left out
finalWeekly_swappedNoClamp(in) ==
  LET sum == ((schoolDiscountWeekly(in) + prepayDiscountWeekly(in)) - subtotal(in))
               + abacusWeekly(in)
  IN toFixed2(sum, 1)

\* mutant: the abacus amount not added
finalWeekly_noAbacus(in) ==
  LET sum == subtotal(in) - schoolDiscountWeekly(in) - prepayDiscountWeekly(in)
      clamped == IF sum < 0 THEN 0 ELSE sum
  IN toFixed2(clamped, 1)

\* let finalWeekly = ...; if (finalWeekly < 0) finalWeekly = 0; toFixed(2)
finalWeekly(in) ==
  LET sum == (subtotal(in) - schoolDiscountWeekly(in) - prepayDiscountWeekly(in))
               + abacusWeekly(in)
      clamped == IF sum < 0 THEN 0 ELSE sum
  IN toFixed2(clamped, 1)

periodWeeks(in) == periodWeeksFor(in.frequency)

\* mutant: the Carrington waiver ignored
registrationFee_noWaiver(in) ==
  IF Truthy(in.abacusEnabled) THEN Dollars(90) ELSE 0

registrationFee(in) ==
  IF Truthy(in.abacusEnabled) /\ ~Truthy(in.isCarrington) THEN Dollars(90) ELSE 0

\* mutant: the registration fee left out of the total
totalForPeriod_noFee(in) == toFixed2(finalWeekly(in) * periodWeeks(in), 1)

totalForPeriod(in) ==
  toFixed2((finalWeekly(in) * periodWeeks(in)) + registrationFee(in), 1)

calculatePrice(in) ==
  [baseWeekly |-> baseWeekly(in),
   addOnWeekly |-> addOnWeekly(in),
   abacusWeekly |-> abacusWeekly(in),
   schoolDiscountWeekly |-> schoolDiscountWeekly(in),
   prepayDiscountWeekly |-> prepayDiscountWeekly(in),
   finalWeekly |-> finalWeekly(in),
   periodWeeks |-> periodWeeks(in),
   registrationFee |-> registrationFee(in),
   totalForPeriod |-> totalForPeriod(in)]

\* ------------------------------------------------- billing frequency menu
\* the weekly prepay discount the <option> text of each billing frequency
\* promises, in cents
advertisedPrepayDiscount(frequency) ==
  CASE frequency = "weekly" -> Dollars(0)
    [] frequency = "monthly" -> Dollars(10)
    [] frequency = "3months" -> Dollars(25)
    [] frequency = "6months" -> Dollars(40)
    [] frequency = "year" -> Dollars(50)

\* the days per week an option's discount is promised for: "(3-5 days)" on
\* the last three options, no restriction on the first two
advertisedEligible(frequency, daysPerWeek) ==
  frequency \in {"3months", "6months", "year"} => daysPerWeek >= 3

\* ------------------------------------------------------ registration form
\* dial codes of the country list offered by the two phone selects
DialCodes == {"+1", "+44", "+61", "+91"}

\* what a user may have typed into a phone field
PhoneInputs == {"", "7123456789", "401234567", "(516) 555-0100"}

\* the values each modelled form field can take
FieldValues ==
  [phoneCountry |-> DialCodes, phone |-> PhoneInputs,
   emergencyPhoneCountry |-> DialCodes, emergencyPhone |-> PhoneInputs]

\* useState initial value of formData (the four phone fields)
InitialFormData ==
  [phoneCountry |-> "+1", phone |-> "",
   emergencyPhoneCountry |-> "+1", emergencyPhone |-> ""]

\* useState initial values of the pricing UI state
InitialPricingInput ==
  [daysPerWeek |-> 3, timeBlock |-> "4-6", school |-> "Other",
   frequency |-> "monthly", extensionsEnabled |-> "false",
   abacusEnabled |-> "false", isCarrington |-> "undefined"]

\* at most this many requests are followed in flight at once
MaxInflight == 2

\* mutant: the emergency number prefixed with the main phone's country code
emergencyPhoneFull_wrongCountry(fd) == fd.phoneCountry \o " " \o fd.emergencyPhone

\* `${formData.phoneCountry} ${formData.phone}`
phoneFull(fd) == fd.phoneCountry \o " " \o fd.phone

\* `${formData.emergencyPhoneCountry} ${formData.emergencyPhone}`
emergencyPhoneFull(fd) == fd.emergencyPhoneCountry \o " " \o fd.emergencyPhone

\* const payload = { ...formData, phoneFull, emergencyPhoneFull, ... }
payload(fd) ==
  [phoneCountry |-> fd.phoneCountry,
   phone |-> fd.phone,
   emergencyPhoneCountry |-> fd.emergencyPhoneCountry,
   emergencyPhone |-> fd.emergencyPhone,
   phoneFull |-> phoneFull(fd),
   emergencyPhoneFull |-> emergencyPhoneFull(fd)]

\* <fieldset disabled={isSubmitting || submitted}>
fieldsetDisabled == isSubmitting \/ submitted

\* the phone inputs are `required`: the browser raises no submit event
\* while one of them is empty
requiredFilled == formData.phone # "" /\ formData.emergencyPhone # ""

\* onChange of a form field: setFormData(prev => ({ ...prev, [name]: value }))
handleInputChange ==
  /\ ~fieldsetDisabled
  /\ \E name \in DOMAIN FieldValues :
       \E value \in FieldValues[name] \ {formData[name]} :
         formData' = [formData EXCEPT ![name] = value]
  /\ UNCHANGED <<isSubmitting, submitted, inflight, logged, alertShown,
                 lastSubmit>>
  /\ UNCHANGED <<pricingVars, emailVars, webhookVars>>

\* mutant: the catch block leaves isSubmitting set
afterFailure_stuck == isSubmitting

\* catch: setIsSubmitting(false)
afterFailure == FALSE

\* mutant: the guard looks at submitted only
submitGuard_submittedOnly == submitted

\* the condition of `if (isSubmitting || submitted) return`
submitGuard == isSubmitting \/ submitted

\* handleSubmit up to its first await, when the guard lets it through:
\* setIsSubmitting(true), build and log the payload, start the fetch
handleSubmit ==
  /\ requiredFilled
  /\ ~submitGuard
  /\ Len(inflight) < MaxInflight
  /\ isSubmitting' = TRUE
  /\ logged' = << payload(formData) >>
  /\ inflight' = Append(inflight, payload(formData))
  /\ alertShown' = FALSE
  /\ lastSubmit' = "sent"
  /\ UNCHANGED <<formData, submitted>>
  /\ UNCHANGED <<pricingVars, emailVars, webhookVars>>

\* handleSubmit when a submit event arrives while isSubmitting or submitted:
\* if (isSubmitting || submitted) return
handleSubmitIgnored ==
  /\ submitGuard
  /\ lastSubmit' = "ignored"
  /\ UNCHANGED <<formData, isSubmitting, submitted, inflight, logged,
                 alertShown>>
  /\ UNCHANGED <<pricingVars, emailVars, webhookVars>>

\* the catch block of handleSubmit: console.error(err), alert(...),
\* setIsSubmitting(false); how is the error it caught
submitFailed(how) ==
  /\ inflight' = Tail(inflight)
  /\ alertShown' = TRUE
  /\ isSubmitting' = afterFailure
  /\ lastSubmit' = how
  /\ UNCHANGED <<formData, submitted, logged>>
  /\ UNCHANGED <<pricingVars, emailVars, webhookVars>>

\* the fetch promise rejects (network error)
fetchRejected ==
  /\ Len(inflight) > 0
  /\ submitFailed("rejected")

\* the response arrives with res.ok false: throw new Error(...), caught
responseNotOk ==
  /\ Len(inflight) > 0
  /\ submitFailed("notOk")

\* the response arrives with res.ok true: setReceipt(...), setSubmitted(true)
responseOk ==
  /\ Len(inflight) > 0
  /\ inflight' = Tail(inflight)
  /\ submitted' = TRUE
  /\ lastSubmit' = "ok"
  /\ UNCHANGED <<formData, isSubmitting, logged, alertShown>>
  /\ UNCHANGED <<pricingVars, emailVars, webhookVars>>

\* the form as first rendered
FormAtRest ==
  /\ formData = InitialFormData
  /\ isSubmitting = FALSE
  /\ submitted = FALSE
  /\ inflight = << >>
  /\ logged = << >>
  /\ alertShown = FALSE
  /\ lastSubmit = "none"

\* the pricing caller left out of the form's and the server's runs
PricingAtRest ==
  /\ input = InitialPricingInput
  /\ result = << >>
  /\ prev = << >>
  /\ pc = "ready"

\* ---------------------------------------------------- send-email endpoint
\* The handlers of POST /api/send-email: the Express route of server.ts
\* ("server"), the Vercel function api/send-email.ts ("vercel") and the
\* earlier serverless function that mirrors server.ts ("vercelMirror").
\* Only POST requests are followed; the functions answer OPTIONS and other
\* methods before they read the body.
Handlers == {"server", "vercel", "vercelMirror"}

\* process.env as the handlers read it: whether a variable is set, and the
\* lower-cased EMAIL_PROVIDER; SMTP_AUTH stands for SMTP_USER and SMTP_PASS
Env ==
  [FROM_EMAIL : BOOLEAN, EMAIL_PROVIDER : {"", "smtp", "resend"},
   RESEND_API_KEY : BOOLEAN, SMTP_HOST : BOOLEAN, SMTP_AUTH : BOOLEAN]

PaymentMethods == {"", "zelle", "stripe", "credit-card", "cash", "check"}

\* pricingInput objects a request body is drawn from
SampleInputs ==
  {InitialPricingInput,
   [daysPerWeek |-> 3, timeBlock |-> "3-6", school |-> "Searingtown",
    frequency |-> "3months", extensionsEnabled |-> "true",
    abacusEnabled |-> "true", isCarrington |-> "false"]}

\* pricing objects a request body is drawn from: what the form computes, and
\* one a client made up
SamplePricings ==
  {calculatePrice(i) : i \in SampleInputs} \cup
  {[baseWeekly |-> 100, addOnWeekly |-> 0, abacusWeekly |-> 0,
    schoolDiscountWeekly |-> 0, prepayDiscountWeekly |-> 0,
    finalWeekly |-> 100, periodWeeks |-> 1, registrationFee |-> 0,
    totalForPeriod |-> 100]}

\* req.body: email is whether form.email is non-empty
Request ==
  [email : BOOLEAN, paymentMethod : PaymentMethods,
   pricing : SamplePricings, pricingInput : SampleInputs]

\* x.toFixed(2) of a whole number of cents: the dollars and the two decimals
toFixedText(x) == << x \div 100, x % 100 >>

\* mutant: the handler prices the request itself from pricingInput
bodyPricing_recomputed(r) == calculatePrice(r.pricingInput)

\* const { form, pricing, pricingInput, payment } = req.body
bodyPricing(r) == r.pricing

\* the amounts of the breakdown lines of an email
amountLines(r) ==
  LET pricing == bodyPricing(r) IN
  [baseWeekly |-> toFixedText(pricing.baseWeekly),
   addOnWeekly |-> toFixedText(pricing.addOnWeekly),
   abacusWeekly |-> toFixedText(pricing.abacusWeekly),
   registrationFee |-> toFixedText(pricing.registrationFee),
   schoolDiscountWeekly |-> toFixedText(pricing.schoolDiscountWeekly),
   prepayDiscountWeekly |-> toFixedText(pricing.prepayDiscountWeekly),
   finalWeekly |-> toFixedText(pricing.finalWeekly),
   periodWeeks |-> pricing.periodWeeks,
   totalForPeriod |-> toFixedText(pricing.totalForPeriod)]

\* the "Amount:" line of the payment section, when the method has one
paymentAmount(methods, r) ==
  IF r.paymentMethod \in methods
  THEN << toFixedText(bodyPricing(r).totalForPeriod) >> ELSE << >>

\* the breakdown lines an email of the handler has: the earlier function
\* knows neither abacus nor the registration fee
printedFields(h) ==
  IF h = "vercelMirror"
  THEN {"baseWeekly", "addOnWeekly", "schoolDiscountWeekly",
        "prepayDiscountWeekly", "finalWeekly", "periodWeeks", "totalForPeriod"}
  ELSE {"baseWeekly", "addOnWeekly", "abacusWeekly", "registrationFee",
        "schoolDiscountWeekly", "prepayDiscountWeekly", "finalWeekly",
        "periodWeeks", "totalForPeriod"}

\* the breakdown lines of an email of the handler
printedAmounts(h, r) == [f \in printedFields(h) |-> amountLines(r)[f]]

\* the payment methods whose section of the email has an "Amount:" line; the
\* earlier function prints its Zelle section whatever the method
methodsWithAmount(h, to) ==
  IF h = "vercelMirror" THEN PaymentMethods
  ELSE IF h = "server" /\ to = "parent"
       THEN {"zelle", "stripe", "credit-card", "cash", "check"}
       ELSE {"zelle", "stripe", "cash", "check"}

\* the admin notification (const lines = [...])
adminEmail(h, r) ==
  [to |-> "admin", amounts |-> printedAmounts(h, r),
   paymentAmount |-> paymentAmount(methodsWithAmount(h, "admin"), r),
   status |-> "pending"]

\* the parent confirmation: the Vercel function sends the admin text again,
\* the Express route composes clientTextLines / clientHtml
parentEmail(h, r) ==
  [to |-> "parent", amounts |-> printedAmounts(h, r),
   paymentAmount |-> paymentAmount(methodsWithAmount(h, "parent"), r),
   status |-> "pending"]

\* the module-level Resend client of server.ts, created at load only when
\* EMAIL_PROVIDER is "resend" and the key is set
resend(e) == e.EMAIL_PROVIDER = "resend" /\ e.RESEND_API_KEY

\* const from = process.env.FROM_EMAIL || 'no-reply@example.com'
from(e) == IF e.FROM_EMAIL THEN "FROM_EMAIL" ELSE "no-reply@example.com"

\* the operand of the handler's "FROM_EMAIL not set" test: the Vercel
\* function tests the constant from, the others process.env.FROM_EMAIL
fromGiven(h, e) == IF h = "vercel" THEN from(e) # "" ELSE e.FROM_EMAIL

\* the configuration checks a handler makes before it sends; "" when it goes on
preCheck(h, e) ==
  IF ~fromGiven(h, e)
  THEN IF h = "vercel" THEN "FROM_EMAIL not set"
       ELSE "FROM_EMAIL not set in environment"
  ELSE CASE h = "server" ->
              IF e.EMAIL_PROVIDER # "smtp" /\ ~e.RESEND_API_KEY
              THEN "RESEND_API_KEY not set in environment" ELSE ""
         [] h = "vercelMirror" ->
              IF e.EMAIL_PROVIDER # "smtp" /\ ~e.SMTP_HOST /\ ~e.RESEND_API_KEY
              THEN "Email provider not configured" ELSE ""
         [] h = "vercel" -> ""

\* whether a send goes through nodemailer rather than Resend
usesSmtp(h, e) ==
  IF h = "vercel" THEN e.EMAIL_PROVIDER = "smtp"
  ELSE e.EMAIL_PROVIDER = "smtp" \/ e.SMTP_HOST

\* getSmtpTransporter: "" when it returns a transporter, else what it throws
getSmtpTransporter(h, e, cached) ==
  IF h # "vercel" /\ cached THEN ""
  ELSE IF ~e.SMTP_HOST \/ ~e.SMTP_AUTH THEN "SMTP not configured"
  ELSE ""

\* what a send throws before anything reaches the provider; "" when nothing
sendConfigError(h, e, cached) ==
  IF usesSmtp(h, e) THEN getSmtpTransporter(h, e, cached)
  ELSE CASE h = "server" ->
              IF ~resend(e) THEN "Resend not configured" ELSE ""
         [] h = "vercelMirror" ->
              IF ~e.RESEND_API_KEY THEN "Resend not configured" ELSE ""
         [] h = "vercel" ->
              IF ~e.RESEND_API_KEY THEN "RESEND_API_KEY missing" ELSE ""

\* how the provider can answer a send: nodemailer resolves or rejects, Resend
\* may also resolve with an { error } object
Outcomes(h, e) ==
  IF usesSmtp(h, e) THEN {"accepted", "rejected"}
  ELSE {"accepted", "error", "rejected"}

\* mutant: no handler looks at the error field
checksSendError_never(h) == FALSE

\* whether the handler looks at the error field of a resolved send
checksSendError(h) == h # "vercel"

\* res.status(status).json({ ok, error })
respond(status, error) ==
  /\ response' = << [status |-> status, ok |-> status = 200, error |-> error] >>
  /\ hpc' = "idle"

\* a send of the email m after the sends in ob: it throws on a missing
\* configuration, else the email is handed to the provider and awaited
trySend(m, ob, awaiting) ==
  LET err == sendConfigError(handler, env, smtpTransporter) IN
  IF err # ""
  THEN /\ respond(500, err)
       /\ outbox' = ob
       /\ UNCHANGED smtpTransporter
  ELSE /\ outbox' = Append(ob, m)
       /\ hpc' = awaiting
       /\ smtpTransporter' =
            (smtpTransporter \/ (handler # "vercel" /\ usesSmtp(handler, env)))
       /\ response' = << >>

\* a POST arrives and the handler runs up to its first await
receive ==
  /\ hpc = "idle"
  /\ \E r \in Request :
       /\ req' = << r >>
       /\ LET pre == preCheck(handler, env) IN
          IF pre # ""
          THEN /\ respond(500, pre)
               /\ outbox' = << >>
               /\ UNCHANGED smtpTransporter
          ELSE trySend(adminEmail(handler, r), << >>, "adminSend")
  /\ UNCHANGED <<env, handler>>
  /\ UNCHANGED <<pricingVars, formVars, webhookVars>>

\* the outbox with the status of its latest email settled
settled(o) == [outbox EXCEPT ![Len(outbox)].status = o]

\* whether the handler goes on after a send that ended as o
sendSucceeded(h, o) == o = "accepted" \/ (o = "error" /\ ~checksSendError(h))

\* the admin send settles: the handler fails, or goes on to the parent
\* confirmation when form.email is given, or answers
adminResult ==
  /\ hpc = "adminSend"
  /\ \E o \in Outcomes(handler, env) :
       IF ~sendSucceeded(handler, o)
       THEN /\ respond(500, "provider error")
            /\ outbox' = settled(o)
            /\ UNCHANGED smtpTransporter
       ELSE IF req[1].email
            THEN trySend(parentEmail(handler, req[1]), settled(o), "parentSend")
            ELSE /\ respond(200, "")
                 /\ outbox' = settled(o)
                 /\ UNCHANGED smtpTransporter
  /\ UNCHANGED <<env, handler, req>>
  /\ UNCHANGED <<pricingVars, formVars, webhookVars>>

\* the parent send settles and the handler answers
parentResult ==
  /\ hpc = "parentSend"
  /\ \E o \in Outcomes(handler, env) :
       /\ IF sendSucceeded(handler, o)
          THEN respond(200, "") ELSE respond(500, "provider error")
       /\ outbox' = settled(o)
  /\ UNCHANGED <<env, handler, req, smtpTransporter>>
  /\ UNCHANGED <<pricingVars, formVars, webhookVars>>

\* a process that has handled no request yet
EmailIdle ==
  /\ req = << >>
  /\ hpc = "idle"
  /\ outbox = << >>
  /\ response = << >>
  /\ smtpTransporter = FALSE

\* the endpoint left out of the pricing and the form runs
EmailAtRest ==
  /\ env = [FROM_EMAIL |-> TRUE, EMAIL_PROVIDER |-> "smtp",
            RESEND_API_KEY |-> FALSE, SMTP_HOST |-> TRUE, SMTP_AUTH |-> TRUE]
  /\ handler = "server"
  /\ EmailIdle

\* ----------------------------------------------------------- Stripe webhook
\* POST /api/payments/stripe/webhook of server.ts.  It runs in the process
\* of the Express route and sends through the same sendEmail.
\* process.env as the webhook reads it: whether each variable is set
StripeEnv == [STRIPE_SECRET_KEY : BOOLEAN, STRIPE_WEBHOOK_SECRET : BOOLEAN]

\* a request to the webhook: its stripe-signature header (absent, a
\* signature made with the configured secret, or any other) and the type of
\* the event in its body
WebhookRequest ==
  [signature : {"none", "valid", "invalid"},
   type : {"checkout.session.completed", "payment_intent.succeeded"}]

\* at most this many webhook requests are followed
MaxWebhookEvents == 2

\* const stripe = stripeSecret ? new Stripe(...) : null
stripe(se) == se.STRIPE_SECRET_KEY

\* mutant: the event is parsed from the body without verification
constructEvent_unverified(r) == TRUE

\* stripe.webhooks.constructEvent(req.body, sig, webhookSecret): whether it
\* returns the event rather than throwing
constructEvent(r) == r.signature = "valid"

\* the admin notification of a completed checkout
paymentReceivedEmail ==
  [to |-> "admin", subject |-> "Stripe payment received", status |-> "pending"]

\* mutant: sendEmail's failure reaches the handler's own catch block
ackAfterSend_awaited(err) ==
  IF err # "" THEN [status |-> 500, body |-> "internal error"]
  ELSE [status |-> 200, body |-> "received"]

\* sendEmail(...).catch(...); res.json({ received: true }): err is what the
\* send threw before reaching the provider, "" when nothing
ackAfterSend(err) == [status |-> 200, body |-> "received"]

\* the webhook answers without sending anything
whAnswer(status, body, log) ==
  /\ whResponse' = << [status |-> status, body |-> body] >>
  /\ whLog' = whLog \o log
  /\ UNCHANGED <<whMail, smtpTransporter>>

\* a request arrives and the handler, which awaits nothing, runs to its end
stripeWebhook ==
  /\ whHandled < MaxWebhookEvents
  /\ whHandled' = whHandled + 1
  /\ \E r \in WebhookRequest :
       /\ whReq' = << r >>
       /\ IF ~stripe(stripeEnv)
          THEN whAnswer(500, "Stripe not configured", << >>)
          ELSE IF ~stripeEnv.STRIPE_WEBHOOK_SECRET \/ r.signature = "none"
          THEN whAnswer(400, "Missing webhook secret or signature", << >>)
          ELSE IF ~constructEvent(r)
          THEN whAnswer(400, "Webhook Error",
                        << "Webhook signature verification failed." >>)
          ELSE IF r.type # "checkout.session.completed"
          THEN whAnswer(200, "received", << >>)
          ELSE LET err == sendConfigError("server", env, smtpTransporter) IN
               /\ whMail' =
                    (IF err = "" THEN Append(whMail, paymentReceivedEmail)
                     ELSE whMail)
               /\ smtpTransporter' =
                    (smtpTransporter \/ (err = "" /\ usesSmtp("server", env)))
               /\ whLog' =
                    (IF err = "" THEN whLog
                     ELSE Append(whLog, "admin stripe email error"))
               /\ whResponse' = << ackAfterSend(err) >>
  /\ UNCHANGED <<stripeEnv, env, handler, req, hpc, outbox, response>>
  /\ UNCHANGED <<pricingVars, formVars>>

\* the provider settles a notification the webhook started: a rejection is
\* logged by the .catch callback, nothing else looks at the result
paymentEmailSettles ==
  /\ \E i \in 1..Len(whMail) :
       /\ whMail[i].status = "pending"
       /\ \E o \in Outcomes("server", env) :
            /\ whMail' = [whMail EXCEPT ![i].status = o]
            /\ whLog' =
                 (IF o = "rejected"
                  THEN Append(whLog, "admin stripe email error") ELSE whLog)
  /\ UNCHANGED <<stripeEnv, whReq, whResponse, whHandled>>
  /\ UNCHANGED <<pricingVars, formVars, emailVars>>

\* a server that has received no webhook request
WebhookIdle ==
  /\ whReq = << >>
  /\ whResponse = << >>
  /\ whMail = << >>
  /\ whLog = << >>
  /\ whHandled = 0

\* the webhook left out of the other runs
WebhookAtRest ==
  /\ stripeEnv = [STRIPE_SECRET_KEY |-> FALSE, STRIPE_WEBHOOK_SECRET |-> FALSE]
  /\ WebhookIdle

InitWebhook ==
  /\ stripeEnv \in StripeEnv
  /\ WebhookIdle
  /\ env \in Env
  /\ handler = "server"
  /\ EmailIdle
  /\ FormAtRest
  /\ PricingAtRest

NextWebhook ==
  \/ stripeWebhook
  \/ paymentEmailSettles

SpecWebhook == InitWebhook /\ [][NextWebhook]_vars

\* ------------------------------------------- the send-email endpoint alone
InitEmail ==
  /\ env \in Env
  /\ handler \in Handlers
  /\ EmailIdle
  /\ FormAtRest
  /\ PricingAtRest
  /\ WebhookAtRest

NextEmail ==
  \/ receive
  \/ adminResult
  \/ parentResult

SpecEmail == InitEmail /\ [][NextEmail]_vars

\* ------------------------------------------- the form on its own
InitForm == FormAtRest /\ PricingAtRest /\ EmailAtRest /\ WebhookAtRest

NextForm ==
  \/ handleInputChange
  \/ handleSubmit
  \/ handleSubmitIgnored
  \/ fetchRejected
  \/ responseNotOk
  \/ responseOk

SpecForm == InitForm /\ [][NextForm]_vars

\* ---------------------------------------------------------- state machine
\* A caller holds an input, calls calculatePrice on it, and then changes one
\* field of the input for its next call.  result is the breakdown of the
\* latest call (empty until it returns); prev is the input and breakdown of
\* the call before it.
Init ==
  /\ input \in PricingInput
  /\ result = << >>
  /\ prev = << >>
  /\ pc = "ready"
  /\ FormAtRest
  /\ EmailAtRest
  /\ WebhookAtRest

Call ==
  /\ pc = "ready"
  /\ result' = << calculatePrice(input) >>
  /\ pc' = "done"
  /\ UNCHANGED <<input, prev>>
  /\ UNCHANGED <<formVars, emailVars, webhookVars>>

SetField(f, values) ==
  /\ pc = "done"
  /\ \E v \in values \ {input[f]} : input' = [input EXCEPT ![f] = v]
  /\ prev' = << [in |-> input, out |-> result[1]] >>
  /\ result' = << >>
  /\ pc' = "ready"
  /\ UNCHANGED <<formVars, emailVars, webhookVars>>

SetDaysPerWeek == SetField("daysPerWeek", DaysPerWeek)

SetTimeBlock == SetField("timeBlock", TimeBlock)

SetSchool == SetField("school", School)

SetFrequency == SetField("frequency", BillingFrequency)

SetExtensionsEnabled == SetField("extensionsEnabled", OptionalBoolean)

SetAbacusEnabled == SetField("abacusEnabled", OptionalBoolean)

SetIsCarrington == SetField("isCarrington", OptionalBoolean)

Next ==
  \/ Call
  \/ SetDaysPerWeek
  \/ SetTimeBlock
  \/ SetSchool
  \/ SetFrequency
  \/ SetExtensionsEnabled
  \/ SetAbacusEnabled
  \/ SetIsCarrington

Spec == Init /\ [][Next]_vars

\* the state right after a call returned, and that call's breakdown
Returned == pc = "done"

out == result[1]

TypeOK ==
  /\ input \in PricingInput
  /\ pc \in {"ready", "done"}
  /\ Len(result) <= 1
  /\ Len(prev) <= 1
  /\ Returned => Len(result) = 1

\* ------------------------------------------------------------ properties
\* an input as the test helper price() builds it: no optional field given
AsTestHelper ==
  /\ input.extensionsEnabled = "undefined"
  /\ input.abacusEnabled = "undefined"
  /\ input.isCarrington = "undefined"

Max0(x) == IF x < 0 THEN 0 ELSE x

\* C1: for every valid input the breakdown calculatePrice returns has
\* finalWeekly >= 0.
C1_FinalWeeklyNonNegative == Returned => out.finalWeekly >= 0

\* the test's case (1 day, 4-6, Searingtown, year) has returned $75
C1_Witness ==
  /\ Returned /\ AsTestHelper
  /\ input.daysPerWeek = 1 /\ input.timeBlock = "4-6"
  /\ input.school = "Searingtown" /\ input.frequency = "year"
  /\ out.finalWeekly = 7500

\* C2: for every valid input the returned finalWeekly equals
\* max(0, (baseWeekly + addOnWeekly) - schoolDiscountWeekly
\* - prepayDiscountWeekly) + abacusWeekly, all read from the same breakdown.
C2_FinalWeeklyFormula ==
  Returned =>
    out.finalWeekly =
      Max0((out.baseWeekly + out.addOnWeekly) - out.schoolDiscountWeekly
             - out.prepayDiscountWeekly) + out.abacusWeekly

\* abacus on, both discounts nonzero: 315 - 126 - 25 + 87.50 = 251.50
C2_Witness ==
  /\ Returned
  /\ input.abacusEnabled = "true" /\ input.extensionsEnabled = "true"
  /\ input.daysPerWeek = 3 /\ input.timeBlock = "3-6"
  /\ input.school = "Searingtown" /\ input.frequency = "3months"
  /\ out.abacusWeekly = 8750
  /\ out.finalWeekly = 25150

\* C3: for every valid input the returned totalForPeriod equals
\* finalWeekly x periodWeeks + registrationFee of the same breakdown, to the
\* cent.
C3_TotalForPeriodExact ==
  Returned =>
    out.totalForPeriod = out.finalWeekly * out.periodWeeks + out.registrationFee

\* a period of several weeks with the one-time fee: 251.50 x 12 + 90 = 3108
C3_Witness ==
  /\ Returned
  /\ input.abacusEnabled = "true" /\ input.isCarrington # "true"
  /\ out.periodWeeks = 12
  /\ out.registrationFee = 9000
  /\ out.finalWeekly = 25150
  /\ out.totalForPeriod = 310800

\* C4: schoolDiscountWeekly is 0 whenever the school is not Searingtown or
\* daysPerWeek < 2; otherwise it is 0.40 x (baseWeekly + addOnWeekly); 4 days
\* at 4-6 for Searingtown billed weekly gives a discount of 120 and a
\* finalWeekly of 180.
C4_SchoolDiscount ==
  Returned =>
    /\ (input.school # "Searingtown" \/ input.daysPerWeek < 2)
         => out.schoolDiscountWeekly = 0
    /\ (input.school = "Searingtown" /\ input.daysPerWeek >= 2)
         => 10 * out.schoolDiscountWeekly = 4 * (out.baseWeekly + out.addOnWeekly)
    /\ (/\ AsTestHelper
        /\ input.daysPerWeek = 4 /\ input.timeBlock = "4-6"
        /\ input.school = "Searingtown" /\ input.frequency = "weekly")
         => out.schoolDiscountWeekly = 12000 /\ out.finalWeekly = 18000

\* the test's case has returned
C4_Witness ==
  /\ Returned /\ AsTestHelper
  /\ input.daysPerWeek = 4 /\ input.timeBlock = "4-6"
  /\ input.school = "Searingtown" /\ input.frequency = "weekly"
  /\ out.schoolDiscountWeekly = 12000

AbacusSwitchedOn ==
  /\ Returned
  /\ Len(prev) = 1
  /\ prev[1].in.abacusEnabled # "true"
  /\ input = [prev[1].in EXCEPT !.abacusEnabled = "true"]

\* C6: switching abacusEnabled from off to true, all else equal, leaves
\* schoolDiscountWeekly and prepayDiscountWeekly unchanged and raises
\* finalWeekly by exactly abacusWeekly (87.50); the period total rises by the
\* undiscounted abacus amount of the period plus the undiscounted
\* registration fee.
C6_AbacusUndiscounted ==
  AbacusSwitchedOn =>
    /\ out.schoolDiscountWeekly = prev[1].out.schoolDiscountWeekly
    /\ out.prepayDiscountWeekly = prev[1].out.prepayDiscountWeekly
    /\ out.abacusWeekly = 8750
    /\ out.finalWeekly = prev[1].out.finalWeekly + 8750
    /\ out.registrationFee \in {0, 9000}
    /\ out.totalForPeriod =
         prev[1].out.totalForPeriod + 8750 * out.periodWeeks + out.registrationFee

\* abacus switched on for an enrolment that has both discounts
C6_Witness ==
  /\ AbacusSwitchedOn
  /\ out.schoolDiscountWeekly > 0
  /\ out.prepayDiscountWeekly > 0
  /\ out.registrationFee = 9000
  /\ prev[1].out.abacusWeekly = 0

PerDaySurcharge(timeBlock) ==
  CASE timeBlock = "4-6" -> 0
    [] timeBlock \in {"3-6", "4-7"} -> 3000
    [] timeBlock = "3-7" -> 5000

\* C8: called as the test helper calls it (daysPerWeek, timeBlock, school
\* and frequency only), calculatePrice returns addOnWeekly =
\* surcharge(timeBlock) x daysPerWeek (3 days at 3-6: 90; 5 days at 3-7:
\* 250), and finalWeekly = baseWeekly + addOnWeekly when no discount applies.
C8_AddOnPerDayAsTested ==
  (Returned /\ AsTestHelper) =>
    /\ out.addOnWeekly = PerDaySurcharge(input.timeBlock) * input.daysPerWeek
    /\ (out.schoolDiscountWeekly = 0 /\ out.prepayDiscountWeekly = 0)
         => out.finalWeekly = out.baseWeekly + out.addOnWeekly
    /\ (input.daysPerWeek = 3 /\ input.timeBlock = "3-6")
         => out.addOnWeekly = 9000
    /\ (input.daysPerWeek = 5 /\ input.timeBlock = "3-7")
         => out.addOnWeekly = 25000

\* C9: when extensionsEnabled is true, addOnWeekly is the per-day surcharge
\* of the time block (0 for 4-6, 30 for 3-6 and 4-7, 50 for 3-7) times
\* daysPerWeek.
C9_AddOnPerDay ==
  (Returned /\ input.extensionsEnabled = "true") =>
    out.addOnWeekly = PerDaySurcharge(input.timeBlock) * input.daysPerWeek

\* extensions on, 3 days at 4-7: $90
C9_Witness ==
  /\ Returned
  /\ input.extensionsEnabled = "true"
  /\ input.timeBlock = "4-7" /\ input.daysPerWeek = 3
  /\ out.addOnWeekly = 9000

\* C10: for every daysPerWeek, with school Other, frequency weekly, block
\* 4-6 and neither extensions nor abacus, baseWeekly and finalWeekly both
\* equal 75 x daysPerWeek.
C10_BaseWeekly ==
  (/\ Returned
   /\ input.school = "Other" /\ input.frequency = "weekly"
   /\ input.timeBlock = "4-6"
   /\ input.extensionsEnabled # "true" /\ input.abacusEnabled # "true")
    => /\ out.baseWeekly = 7500 * input.daysPerWeek
       /\ out.finalWeekly = 7500 * input.daysPerWeek

\* the 4-day case of the test has returned $300
C10_Witness ==
  /\ Returned /\ AsTestHelper
  /\ input.school = "Other" /\ input.frequency = "weekly"
  /\ input.timeBlock = "4-6" /\ input.daysPerWeek = 4
  /\ out.finalWeekly = 30000

\* C11: registrationFee is 90 if and only if abacusEnabled is true and
\* isCarrington is not; in every other case it is 0, whatever daysPerWeek,
\* timeBlock, school and frequency are.
C11_RegistrationFee ==
  Returned =>
    /\ (input.abacusEnabled = "true" /\ input.isCarrington # "true")
         => out.registrationFee = 9000
    /\ (input.abacusEnabled # "true" \/ input.isCarrington = "true")
         => out.registrationFee = 0

\* the waiver at work: abacus on for a Carrington family, no fee
C11_Witness ==
  /\ Returned
  /\ input.abacusEnabled = "true" /\ input.isCarrington = "true"
  /\ out.abacusWeekly = 8750
  /\ out.registrationFee = 0

\* C12: abacusWeekly is 87.50 (350 / 4) whenever abacusEnabled is true and 0
\* otherwise, whatever the other six input fields are.
C12_AbacusWeekly ==
  Returned =>
    /\ input.abacusEnabled = "true" => out.abacusWeekly = 8750
    /\ input.abacusEnabled # "true" => out.abacusWeekly = 0

\* abacus on for a discounted 5-day Searingtown full-year enrolment
C12_Witness ==
  /\ Returned
  /\ input.abacusEnabled = "true"
  /\ input.daysPerWeek = 5 /\ input.school = "Searingtown"
  /\ input.frequency = "year"
  /\ out.abacusWeekly = 8750

\* C13: periodWeeks depends on frequency only: weekly 1, monthly 4,
\* 3months 12, 6months 24, year 40.
C13_PeriodWeeks ==
  Returned =>
    out.periodWeeks =
      CASE input.frequency = "weekly" -> 1
        [] input.frequency = "monthly" -> 4
        [] input.frequency = "3months" -> 12
        [] input.frequency = "6months" -> 24
        [] input.frequency = "year" -> 40

\* a full-year call has returned 40 weeks
C13_Witness ==
  /\ Returned
  /\ input.frequency = "year"
  /\ out.periodWeeks = 40

\* C14: the prepay discount is applied after the school discount and does
\* not change it: schoolDiscountWeekly is 40% of the undiscounted subtotal
\* for every frequency and finalWeekly = subtotal - schoolDiscountWeekly -
\* prepayDiscountWeekly; called as the test calls it, 3 days at 3-6 for
\* Searingtown on 3months gives school discount 126, prepay 25, finalWeekly
\* 164, periodWeeks 12 and totalForPeriod 1968.
C14_PrepayAfterSchoolAsTested ==
  Returned =>
    /\ (input.school = "Searingtown" /\ input.daysPerWeek >= 2)
         => 10 * out.schoolDiscountWeekly = 4 * (out.baseWeekly + out.addOnWeekly)
    /\ input.abacusEnabled # "true"
         => out.finalWeekly =
              (out.baseWeekly + out.addOnWeekly) - out.schoolDiscountWeekly
                - out.prepayDiscountWeekly
    /\ (/\ AsTestHelper
        /\ input.daysPerWeek = 3 /\ input.timeBlock = "3-6"
        /\ input.school = "Searingtown" /\ input.frequency = "3months")
         => /\ out.schoolDiscountWeekly = 12600
            /\ out.prepayDiscountWeekly = 2500
            /\ out.finalWeekly = 16400
            /\ out.periodWeeks = 12
            /\ out.totalForPeriod = 196800

\* C15: for every billing frequency and every daysPerWeek its option text
\* covers, the prepayDiscountWeekly calculatePrice returns is the discount
\* the option advertises (none, $10, $25, $40, $50 off per week).
C15_AdvertisedPrepayDiscount ==
  (Returned /\ advertisedEligible(input.frequency, input.daysPerWeek)) =>
    out.prepayDiscountWeekly = advertisedPrepayDiscount(input.frequency)

\* the names of the nine fields of a PricingBreakdown
BreakdownFields ==
  {"baseWeekly", "addOnWeekly", "abacusWeekly", "schoolDiscountWeekly",
   "prepayDiscountWeekly", "finalWeekly", "periodWeeks", "registrationFee",
   "totalForPeriod"}

\* C17: calculatePrice is total on valid input: for every combination of the
\* seven fields (the optional booleans set or omitted) the call returns, and
\* the breakdown has exactly the nine fields, each a defined number (a whole,
\* non-negative count of cents or weeks).
C17_Total ==
  /\ pc = "ready" => ENABLED Call
  /\ Returned =>
       /\ DOMAIN out = BreakdownFields
       /\ \A f \in BreakdownFields : out[f] \in Nat

\* the last case of periodWeeksFor's switch, all optional fields omitted
C17_Witness ==
  /\ Returned /\ AsTestHelper
  /\ input.frequency = "year"
  /\ out.periodWeeks = 40
  /\ out.totalForPeriod = 40 * out.finalWeekly

\* the core amount of a breakdown: what is left of the subtotal after the
\* two discounts, before the clamp and before abacus is added
Core(b) ==
  (b.baseWeekly + b.addOnWeekly) - b.schoolDiscountWeekly - b.prepayDiscountWeekly

\* C21: for every valid input the core amount subtotal - schoolDiscountWeekly
\* - prepayDiscountWeekly is strictly positive, so the clamp of calculatePrice
\* never changes finalWeekly: finalWeekly is the unclamped sum.
C21_CorePositive ==
  Returned =>
    /\ Core(out) > 0
    /\ out.finalWeekly = Core(out) + out.abacusWeekly

\* the smallest core with both discounts at work: 2 days for Searingtown
\* billed monthly, 150 - 60 - 10 = 80
C21_Witness ==
  /\ Returned
  /\ input.daysPerWeek = 2 /\ input.school = "Searingtown"
  /\ input.frequency = "monthly" /\ input.extensionsEnabled # "true"
  /\ out.schoolDiscountWeekly = 6000 /\ out.prepayDiscountWeekly = 1000
  /\ Core(out) = 8000

\* the latest call differs from the call before it only in the field f
OnlyChanged(f) ==
  /\ Returned
  /\ Len(prev) = 1
  /\ input = [prev[1].in EXCEPT ![f] = input[f]]
  /\ input[f] # prev[1].in[f]

\* C22: for fixed timeBlock, school, frequency, extensionsEnabled,
\* abacusEnabled and isCarrington, finalWeekly at daysPerWeek = d + 1 is
\* strictly greater than finalWeekly at daysPerWeek = d, for d in 1..4.
C22_MoreDaysCostMore ==
  (OnlyChanged("daysPerWeek") /\ input.daysPerWeek = prev[1].in.daysPerWeek + 1)
    => out.finalWeekly > prev[1].out.finalWeekly

\* the closest step: Searingtown full year from 2 days (90, no prepay
\* discount) to 3 days (135 - 40 = 95)
C22_Witness ==
  /\ OnlyChanged("daysPerWeek")
  /\ prev[1].in.daysPerWeek = 2 /\ input.daysPerWeek = 3
  /\ input.school = "Searingtown" /\ input.frequency = "year"
  /\ input.extensionsEnabled # "true" /\ input.abacusEnabled # "true"
  /\ prev[1].out.finalWeekly = 9000
  /\ out.finalWeekly = 9500

\* the place of a billing frequency in the order weekly, monthly, 3months,
\* 6months, year
CommitmentRank(frequency) ==
  CASE frequency = "weekly" -> 1
    [] frequency = "monthly" -> 2
    [] frequency = "3months" -> 3
    [] frequency = "6months" -> 4
    [] frequency = "year" -> 5

\* the latest call differs from the call before it only in a frequency
\* further along the order
LongerCommitment ==
  /\ OnlyChanged("frequency")
  /\ CommitmentRank(input.frequency) > CommitmentRank(prev[1].in.frequency)

\* C23 as stated: for fixed other inputs, finalWeekly is non-increasing along
\* weekly, monthly, 3months, 6months, year, for every daysPerWeek in 1..5.
C23_LongerNeverDearer ==
  LongerCommitment => out.finalWeekly <= prev[1].out.finalWeekly

\* C23 as amended: finalWeekly is non-increasing along weekly, monthly,
\* 3months, 6months, year for every daysPerWeek in 3..5; for daysPerWeek 1
\* and 2 it is the same at weekly, 3months, 6months and year, and 10 lower
\* at monthly.
C23_LongerNeverDearerFrom3Days ==
  /\ (LongerCommitment /\ input.daysPerWeek >= 3)
       => out.finalWeekly <= prev[1].out.finalWeekly
  /\ (OnlyChanged("frequency") /\ input.daysPerWeek < 3) =>
       out.finalWeekly =
         (prev[1].out.finalWeekly
            + (IF prev[1].in.frequency = "monthly" THEN 1000 ELSE 0))
           - (IF input.frequency = "monthly" THEN 1000 ELSE 0)

\* a 3-day enrolment moved from monthly to 3months: $15 less per week
C23_Witness ==
  /\ LongerCommitment
  /\ input.daysPerWeek = 3
  /\ prev[1].in.frequency = "monthly" /\ input.frequency = "3months"
  /\ out.finalWeekly = prev[1].out.finalWeekly - 1500

\* ------------------------------------------------- registration form claims
\* the latest submission ended in the catch block of handleSubmit
SubmitHasFailed == lastSubmit \in {"rejected", "notOk"}

\* C19: when the POST to /api/send-email fails (the fetch rejects or the
\* response is not OK) the form shows the alert, submitted stays false and
\* isSubmitting is back to false, and a later submit event (with the required
\* fields still filled) sends a new request.
C19_FailedSubmitCanRetry ==
  SubmitHasFailed =>
    /\ alertShown
    /\ ~submitted
    /\ ~isSubmitting
    /\ requiredFilled => ENABLED handleSubmit

\* the network error of the App test: the alert is up, nothing is in flight
\* and the form accepts a new submit event
C19_Witness ==
  /\ lastSubmit = "rejected"
  /\ alertShown /\ ~isSubmitting /\ ~submitted
  /\ Len(inflight) = 0
  /\ formData.phone = "7123456789"
  /\ ENABLED handleSubmit

\* C20: on submit the payload's phoneFull is the selected phone country
\* code, one space, then the phone number as typed, and emergencyPhoneFull is
\* the emergency country code, one space, then the emergency phone as typed,
\* each from its own two fields only ('+44 7123456789', '+61 401234567').
C20_PhoneFull ==
  lastSubmit = "sent" =>
    /\ Len(logged) = 1
    /\ logged[1].phoneFull = formData.phoneCountry \o " " \o formData.phone
    /\ logged[1].emergencyPhoneFull =
         formData.emergencyPhoneCountry \o " " \o formData.emergencyPhone
    /\ logged[1] = inflight[Len(inflight)]
    /\ (formData.phoneCountry = "+44" /\ formData.phone = "7123456789")
         => logged[1].phoneFull = "+44 7123456789"
    /\ (formData.emergencyPhoneCountry = "+61"
          /\ formData.emergencyPhone = "401234567")
         => logged[1].emergencyPhoneFull = "+61 401234567"

\* the submission of the App test has been logged
C20_Witness ==
  /\ lastSubmit = "sent"
  /\ formData.phoneCountry = "+44" /\ formData.phone = "7123456789"
  /\ formData.emergencyPhoneCountry = "+61"
  /\ formData.emergencyPhone = "401234567"
  /\ logged[1].phoneFull = "+44 7123456789"
  /\ logged[1].emergencyPhoneFull = "+61 401234567"

\* C24: at most one send-email request is in flight at any time and none is
\* sent after a submission has succeeded: no step taken while isSubmitting or
\* submitted is true adds a request, whatever the order of submit events and
\* responses.
C24_OneRequestInFlight ==
  /\ [](Len(inflight) <= 1)
  /\ [][(isSubmitting \/ submitted) => Len(inflight') <= Len(inflight)]_vars

\* a submit event arrived while the first request was still in flight and
\* was dropped
C24_Witness ==
  /\ lastSubmit = "ignored"
  /\ isSubmitting /\ ~submitted
  /\ Len(inflight) = 1
  /\ inflight[1] = logged[1]

\* ------------------------------------------------ send-email endpoint claims
\* the money fields of a breakdown (periodWeeks is printed as it is)
MoneyFields == BreakdownFields \ {"periodWeeks"}

\* C18: the send-email handler recomputes no price: every amount of every
\* email it hands to the provider (base, add-ons, abacus, fee, discounts,
\* final weekly, weeks, total, and the payment amount when there is one) is
\* the value of the pricing object of the request body, printed with two
\* decimals, whatever pricingInput says.
C18_NoRecomputation ==
  \A i \in 1..Len(outbox) :
    /\ {"finalWeekly", "periodWeeks", "totalForPeriod"}
         \subseteq DOMAIN outbox[i].amounts
    /\ \A f \in MoneyFields \cap DOMAIN outbox[i].amounts :
         outbox[i].amounts[f] =
           << req[1].pricing[f] \div 100, req[1].pricing[f] % 100 >>
    /\ outbox[i].amounts.periodWeeks = req[1].pricing.periodWeeks
    /\ \/ outbox[i].paymentAmount = << >>
       \/ outbox[i].paymentAmount =
            << << req[1].pricing.totalForPeriod \div 100,
                  req[1].pricing.totalForPeriod % 100 >> >>

\* both emails of a Zelle registration went out with the total of a pricing
\* object that is not the price of the request's pricingInput
C18_Witness ==
  /\ Len(outbox) = 2
  /\ outbox[1].to = "admin" /\ outbox[2].to = "parent"
  /\ req[1].paymentMethod = "zelle"
  /\ req[1].pricing # calculatePrice(req[1].pricingInput)
  /\ req[1].pricing.totalForPeriod = 100
  /\ outbox[2].paymentAmount = << << 1, 0 >> >>

\* the handler has answered its latest request
Answered == hpc = "idle" /\ Len(response) = 1

\* a send that the provider did not accept
SendFailed(m) == m.status \in {"rejected", "error"}

C28_OkOnlyAfterAccepted ==
  /\ (Answered /\ response[1].ok) =>
       /\ Len(outbox) = (IF req[1].email THEN 2 ELSE 1)
       /\ \A i \in 1..Len(outbox) : outbox[i].status = "accepted"
  /\ (\E i \in 1..Len(outbox) : SendFailed(outbox[i])) =>
       /\ Answered
       /\ response[1].status = 500 /\ ~response[1].ok

\* ------------------------------------------------------ Stripe webhook claims
\* the latest webhook request passed all three checks of the handler
Verified ==
  /\ Len(whReq) = 1
  /\ stripe(stripeEnv) /\ stripeEnv.STRIPE_WEBHOOK_SECRET
  /\ whReq[1].signature = "valid"

\* the acknowledgement res.json({ received: true })
Received == << [status |-> 200, body |-> "received"] >>

\* C26: for a verified checkout.session.completed event the webhook answers
\* {received: true} whether the admin notification later succeeds or fails:
\* no settling of an email changes the response, and no failure of the send
\* produces a 500.
C26_AckWhateverTheEmail ==
  /\ []((Verified /\ whReq[1].type = "checkout.session.completed")
          => whResponse = Received)
  /\ [][(\E i \in 1..Len(whMail) :
            whMail[i].status = "pending" /\ whMail'[i].status # "pending")
         => whResponse' = whResponse]_vars

\* the provider rejected the notification of a completed checkout, the
\* rejection was logged and the answer is still {received: true}
C26_Witness ==
  /\ Verified /\ whReq[1].type = "checkout.session.completed"
  /\ Len(whMail) = 1 /\ whMail[1].status = "rejected"
  /\ whLog = << "admin stripe email error" >>
  /\ whResponse = Received

\* C27: the webhook starts a 'payment received' email only for a request
\* whose signature was verified with the configured webhook secret; when
\* Stripe is not configured it answers 500, when the secret or the signature
\* header is missing or the verification fails it answers 400, and in none
\* of these cases is an email sent.
C27_EmailOnlyWhenVerified ==
  /\ [][Len(whMail') > Len(whMail) =>
          /\ stripeEnv.STRIPE_SECRET_KEY /\ stripeEnv.STRIPE_WEBHOOK_SECRET
          /\ whReq'[1].signature = "valid"
          /\ whReq'[1].type = "checkout.session.completed"]_vars
  /\ [](Len(whReq) = 1 =>
          /\ ~stripeEnv.STRIPE_SECRET_KEY =>
               whResponse = << [status |-> 500, body |-> "Stripe not configured"] >>
          /\ (/\ stripeEnv.STRIPE_SECRET_KEY
              /\ ~stripeEnv.STRIPE_WEBHOOK_SECRET \/ whReq[1].signature = "none")
               => whResponse =
                    << [status |-> 400,
                        body |-> "Missing webhook secret or signature"] >>
          /\ (/\ stripeEnv.STRIPE_SECRET_KEY /\ stripeEnv.STRIPE_WEBHOOK_SECRET
              /\ whReq[1].signature = "invalid")
               => whResponse = << [status |-> 400, body |-> "Webhook Error"] >>)

\* a completed-checkout event with a signature that does not verify was
\* answered 400 and no email went out, on a server able to send one
C27_Witness ==
  /\ Len(whReq) = 1
  /\ stripeEnv.STRIPE_SECRET_KEY /\ stripeEnv.STRIPE_WEBHOOK_SECRET
  /\ whReq[1].signature = "invalid"
  /\ whReq[1].type = "checkout.session.completed"
  /\ sendConfigError("server", env, smtpTransporter) = ""
  /\ whResponse = << [status |-> 400, body |-> "Webhook Error"] >>
  /\ whMail = << >>
  /\ whLog = << "Webhook signature verification failed." >>

\* ------------------------------------------- send-email configuration claims
\* what a send throws when it finds no usable provider
NotConfiguredErrors ==
  {"SMTP not configured", "Resend not configured", "RESEND_API_KEY missing"}

\* what the pre-check answers when it deems no provider configured
NoProviderErrors ==
  {"RESEND_API_KEY not set in environment", "Email provider not configured"}

\* C29: in the handlers that have a configuration pre-check (the Express
\* route and the function that mirrors it), whenever the pre-check passes no
\* send fails with a 'not configured' error; and a configuration that
\* sendEmail could serve (FROM_EMAIL set) is not rejected by the pre-check.
C29_PreCheckAgreesWithSendEmail ==
  (Answered /\ handler \in {"server", "vercelMirror"}) =>
    /\ preCheck(handler, env) = ""
         => response[1].error \notin NotConfiguredErrors
    /\ (env.FROM_EMAIL /\ sendConfigError(handler, env, FALSE) = "")
         => response[1].error \notin NoProviderErrors

\* C30: a send-email request handled while FROM_EMAIL is not set is answered
\* 500 with a 'FROM_EMAIL not set' error and no email is sent, in every
\* send-email handler.
C30_FromEmailRequired ==
  (~env.FROM_EMAIL /\ Len(req) = 1) =>
    /\ outbox = << >>
    /\ Answered
    /\ response[1].status = 500 /\ ~response[1].ok
    /\ response[1].error \in
         {"FROM_EMAIL not set in environment", "FROM_EMAIL not set"}

====
